---- MODULE Spec2Model ----
(***************************************************************************)
(* Model of streamlit_app.py: the Streamlit script of the HealthCare AI    *)
(* Assistant.  Every user interaction re-executes the whole script; a      *)
(* button is true only in the run its own click triggered.                 *)
(*                                                                         *)
(* Floats are modelled in fixed point: a real x is the integer x * Unit,   *)
(* every operation truncates toward zero, so that (as in IEEE arithmetic)  *)
(* op(-x) = -op(x).  Angles in degrees are whole numbers.                  *)
(***************************************************************************)
EXTENDS Integers, Sequences, FiniteSets, TLC

VARIABLES session_state, config, pdf_file, input, run

vars == <<session_state, config, pdf_file, input, run>>

----------------------------------------------------------------------------
(* Fixed-point float arithmetic (math.radians, sin, cos, asin, sqrt).      *)

Unit == 10000

Pi == 31416

R == 6371

Abs(x) == IF x < 0 THEN -x ELSE x

\* F applied to the value of e (e is evaluated once)
Let(e, F(_)) == CHOOSE r \in {F(v) : v \in {e}} : TRUE

\* x / d for d > 0, truncated toward zero
TDiv(x, d) == IF x >= 0 THEN x \div d ELSE -((-x) \div d)

\* product of two fixed-point numbers
FMul(x, y) == TDiv(x * y, Unit)

\* math.radians: degrees (whole number) -> radians (fixed point)
radians(deg) == TDiv(deg * Pi, 180)

\* Taylor series: the term after `term` of order k-1 is -term*x*x/(k*(k+1))
RECURSIVE Series(_, _, _, _)
Series(x, term, k, acc) ==
    IF term = 0 THEN acc
    ELSE LET nxt == -TDiv(FMul(TDiv(FMul(term, x), k), x), k + 1)
         IN  Series(x, nxt, k + 2, acc + term)

sin(x) == Series(x, x, 2, 0)

cos(x) == Series(x, Unit, 1, 0)

\* integer square root by bisection: the largest r with r*r <= n
RECURSIVE ISqrt(_, _, _)
ISqrt(n, lo, hi) ==
    IF lo >= hi THEN lo
    ELSE LET mid == (lo + hi + 1) \div 2
         IN  IF mid * mid <= n THEN ISqrt(n, mid, hi) ELSE ISqrt(n, lo, mid - 1)

sqrt(a) == ISqrt(a * Unit, 0, 2 * Unit)

\* asin on [0, 1] by bisection on sin over [0, pi/2]
RECURSIVE ASinBisect(_, _, _)
ASinBisect(y, lo, hi) ==
    IF lo >= hi THEN lo
    ELSE LET mid == (lo + hi + 1) \div 2
         IN  IF sin(mid) <= y THEN ASinBisect(y, mid, hi) ELSE ASinBisect(y, lo, mid - 1)

asin(y) == ASinBisect(y, 0, Pi \div 2)

\* math.asin raises ValueError outside [-1, 1]
asinDomainError(y) == y > Unit

----------------------------------------------------------------------------
(* JSON / Python values: a number (whole degrees), None, or a string.      *)

Num(n) == [t |-> "num", v |-> n]

None == [t |-> "none", v |-> 0]

Str == [t |-> "str", v |-> 0]

IsNum(x) == x.t = "num"

\* Python truthiness: None and 0 are false, a non-empty string is true
Truthy(x) == (x.t = "num" /\ x.v # 0) \/ x.t = "str"

\* the points of the model: whole degrees
GridLats == {-90, -60, 0, 30, 60, 90}

GridLons == {-180, -90, 0, 30, 120, 180}

haversine_lat1_twice(lat1, lon1, lat2, lon2) ==
    LET dlat == radians(lat2 - lat1)
        dlon == radians(lon2 - lon1)
        sa   == sin(TDiv(dlat, 2))
        so   == sin(TDiv(dlon, 2))
        a    == FMul(sa, sa) + FMul(FMul(cos(radians(lat1)), cos(radians(lat1))), FMul(so, so))
    IN  IF asinDomainError(sqrt(a)) THEN [exc |-> TRUE, km |-> 0]
        ELSE [exc |-> FALSE, km |-> 2 * R * asin(sqrt(a))]

\* haversine_km on numbers: [exc |-> math.asin raised, km |-> distance * Unit]
haversine_km(lat1, lon1, lat2, lon2) ==
    LET dlat == radians(lat2 - lat1)
        dlon == radians(lon2 - lon1)
        sa   == sin(TDiv(dlat, 2))
        so   == sin(TDiv(dlon, 2))
        a    == FMul(sa, sa) + FMul(FMul(cos(radians(lat1)), cos(radians(lat2))), FMul(so, so))
    IN  IF asinDomainError(sqrt(a)) THEN [exc |-> TRUE, km |-> 0]
        ELSE [exc |-> FALSE, km |-> 2 * R * asin(sqrt(a))]

\* haversine_km tabulated over the points of the model
GridPoints == GridLats \X GridLons

\* haversine_km tabulated over the points of the model (built eagerly)
RECURSIVE TabulateTo(_, _)
TabulateTo(p, S) ==
    IF S = {} THEN <<>>
    ELSE LET q == CHOOSE x \in S : TRUE
         IN  (q :> haversine_km(p[1], p[2], q[1], q[2])) @@ TabulateTo(p, S \ {q})

RECURSIVE TabulateFrom(_)
TabulateFrom(S) ==
    IF S = {} THEN <<>>
    ELSE LET p == CHOOSE x \in S : TRUE
         IN  (p :> TabulateTo(p, GridPoints)) @@ TabulateFrom(S \ {p})

HaversineTable == TabulateFrom(GridPoints)

\* a call of haversine_km with Python values: the arithmetic raises
\* TypeError unless all four are numbers
call_haversine_km(lat1, lon1, lat2, lon2) ==
    IF ~(IsNum(lat1) /\ IsNum(lon1) /\ IsNum(lat2) /\ IsNum(lon2))
    THEN [exc |-> TRUE, km |-> 0]
    ELSE HaversineTable[<<lat1.v, lon1.v>>][<<lat2.v, lon2.v>>]

\* round(x, 2): km * Unit -> hundredths of a km, ties to even
round2(x) ==
    LET q == x \div 100
        r == x % 100
    IN  IF r > 50 \/ (r = 50 /\ q % 2 = 1) THEN q + 1 ELSE q

----------------------------------------------------------------------------
(* Text: Python strings are sequences of one-character strings.            *)

WS == {" ", "\n", "\t"}

RECURSIVE LStrip(_)
LStrip(s) == IF s # <<>> /\ Head(s) \in WS THEN LStrip(Tail(s)) ELSE s

RECURSIVE RStrip(_)
RStrip(s) ==
    IF s # <<>> /\ s[Len(s)] \in WS THEN RStrip(SubSeq(s, 1, Len(s) - 1)) ELSE s

\* str.strip()
strip(s) == RStrip(LStrip(s))

\* a non-empty run s[i..j] of [^@\s]
Run(s, i, j) == i <= j /\ \A k \in i..j : s[k] \notin WS \cup {"@"}

\* `$` matches at the end of the string and before a final newline
DollarEnds(s) ==
    IF s # <<>> /\ s[Len(s)] = "\n" THEN {Len(s) - 1, Len(s)} ELSE {Len(s)}

\* EMAIL_RE.match(s) for ^[^@\s]+@[^@\s]+\.[^@\s]+$
EMAIL_RE_match(s) ==
    \E e \in DollarEnds(s), i \in 1..Len(s), j \in 1..Len(s) :
        /\ i < j /\ j < e
        /\ s[i] = "@" /\ s[j] = "."
        /\ Run(s, 1, i - 1) /\ Run(s, i + 1, j - 1) /\ Run(s, j + 1, e)

----------------------------------------------------------------------------
(* st.session_state: a function from the keys present to their values.     *)

Has(ss, k) == k \in DOMAIN ss

Put(ss, k, v) == [x \in DOMAIN ss \cup {k} |-> IF x = k THEN v ELSE ss[x]]

Get(ss, k, d) == IF k \in DOMAIN ss THEN ss[k] ELSE d

\* the values ask_groq returns (Python strings)
NotConfigured == [t |-> "not_configured", s |-> <<>>]

LLMError == [t |-> "error", s |-> <<>>]

Text(s) == [t |-> "text", s |-> s]

\* resp.choices[0].message.content: None or a string
NoContent == [t |-> "none", s |-> <<>>]

Content(s) == [t |-> "str", s |-> s]

\* the outcome of client.chat.completions.create
Raised == [exc |-> TRUE, content |-> NoContent]

Returned(c) == [exc |-> FALSE, content |-> c]

ask_groq_retry(user_input, client, outcome) ==
    IF ~client
    THEN [ret |-> NotConfigured, calls |-> <<>>]
    ELSE IF outcome.exc
         THEN [ret |-> LLMError, calls |-> <<"completion", "completion">>]
         ELSE [ret |-> Text(strip(outcome.content.s)), calls |-> <<"completion">>]

\* ask_groq: the string returned and the completion requests made
ask_groq(user_input, client, outcome) ==
    IF ~client
    THEN [ret |-> NotConfigured, calls |-> <<>>]
    ELSE IF outcome.exc
         THEN [ret |-> LLMError, calls |-> <<"completion">>]
         ELSE [ret |-> Text(strip(outcome.content.s)), calls |-> <<"completion">>]

NoRet == [t |-> "no_call", s |-> <<>>]

AnalyzeHandlerNoReset(ss, btn, symptoms, client, outcome) ==
    IF ~btn["analyze"] \/ strip(symptoms) = <<>>
    THEN [ss |-> ss, calls |-> <<>>, ret |-> NoRet]
    ELSE Let(ask_groq(strip(symptoms), client, outcome), LAMBDA r :
             [ss |-> Put(ss, "llm_response", r.ret), calls |-> r.calls, ret |-> r.ret])

AnalyzeHandlerNoStrip(ss, btn, symptoms, client, outcome) ==
    IF ~btn["analyze"] \/ symptoms = <<>>
    THEN [ss |-> ss, calls |-> <<>>, ret |-> NoRet]
    ELSE Let(ask_groq(strip(symptoms), client, outcome), LAMBDA r :
             [ss |-> Put(Put(ss, "llm_response", r.ret), "pdf_generated", FALSE),
              calls |-> r.calls, ret |-> r.ret])

\* if st.button("Analyze Symptoms"): ...
AnalyzeHandler(ss, btn, symptoms, client, outcome) ==
    IF ~btn["analyze"] \/ strip(symptoms) = <<>>
    THEN [ss |-> ss, calls |-> <<>>, ret |-> NoRet]
    ELSE Let(ask_groq(strip(symptoms), client, outcome), LAMBDA r :
             [ss |-> Put(Put(ss, "llm_response", r.ret), "pdf_generated", FALSE),
              calls |-> r.calls, ret |-> r.ret])

\* healthcare_report.pdf as this session last wrote it
NoFile == [written |-> FALSE, rendered_from |-> NoRet]

\* if "llm_response" in st.session_state: ... if st.button("Generate PDF"): ...
\* pdf_outcome: "ok", "fail" (before anything is written), "fail_output"
GenerateHandler(ss, file, btn, pdf_outcome) ==
    IF ~(Has(ss, "llm_response") /\ btn["generate"]) \/ pdf_outcome = "fail"
    THEN [ss |-> ss, file |-> file]
    ELSE [ss   |-> IF pdf_outcome = "fail_output" THEN ss
                   ELSE Put(Put(ss, "pdf_generated", TRUE), "pdf_path", "healthcare_report.pdf"),
          file |-> [written |-> TRUE, rendered_from |-> ss["llm_response"]]]

\* if st.button("Send PDF to Email"): ...   calls: the SMTP connections opened
\* mail_outcome: "file_missing", "sent", "smtp_error"
SendHandler(ss, btn, email, can_send_email, mail_outcome) ==
    IF ~(Get(ss, "pdf_generated", FALSE) /\ btn["send"]) THEN <<>>
    ELSE IF ~EMAIL_RE_match(email) THEN <<>>
    ELSE IF ~can_send_email THEN <<>>
    ELSE IF mail_outcome = "file_missing" THEN <<>>
    ELSE <<"mail">>

----------------------------------------------------------------------------
(* Hospital finder.                                                        *)

\* the "N/A" marker of the column "Approx. Distance (km)"
NA == [t |-> "N/A", v |-> 0]

\* one data_rows entry for the feature at position i (Name stands for the
\* feature; Address and Coordinates are display text derived from it)
Row(i, h, approx) == [Name |-> i, approx |-> approx, lat |-> h.lat, lon |-> h.lon]

\* round(approx_km, 2) of a haversine_km result, or the exception it raised
Rounded(d) ==
    IF d.exc THEN [exc |-> TRUE, approx |-> NA]
    ELSE [exc |-> FALSE, approx |-> Num(round2(d.km))]

\* approx_km = haversine_km(...) if (h_lat and h_lon) else None, then
\* round(approx_km, 2) if approx_km is not None else "N/A"
Approx(lat, lon, h) ==
    IF Truthy(h.lat) /\ Truthy(h.lon)
    THEN Rounded(call_haversine_km(lat, lon, h.lat, h.lon))
    ELSE [exc |-> FALSE, approx |-> NA]

\* for hospital in hospitals["features"]: data_rows.append(...)
RECURSIVE BuildRows(_, _, _, _, _)
BuildRows(lat, lon, features, i, rows) ==
    IF i > Len(features) THEN [exc |-> FALSE, rows |-> rows]
    ELSE Let(Approx(lat, lon, features[i]), LAMBDA a :
             IF a.exc THEN [exc |-> TRUE, rows |-> rows]
             ELSE BuildRows(lat, lon, features, i + 1,
                            Append(rows, Row(i, features[i], a.approx))))

\* pd.to_numeric(s, errors="coerce"): a number stays, anything else is NaN
IsNaN(x) == x.t # "num"

\* insertion of row r into the sorted sequence s, after its equals
RECURSIVE Insert(_, _)
Insert(s, r) ==
    IF s = <<>> THEN <<r>>
    ELSE IF r.approx.v < s[1].approx.v THEN <<r>> \o s
         ELSE <<s[1]>> \o Insert(Tail(s), r)

RECURSIVE SortRows(_, _)
SortRows(rows, acc) ==
    IF rows = <<>> THEN acc
    ELSE Let(Insert(acc, Head(rows)), LAMBDA acc1 : SortRows(Tail(rows), acc1))

SelectRows(rows, P(_)) ==
    LET F[i \in 0..Len(rows)] ==
            IF i = 0 THEN <<>>
            ELSE IF P(rows[i]) THEN Append(F[i - 1], rows[i]) ELSE F[i - 1]
    IN  F[Len(rows)]

NonNaNRow(r) == ~IsNaN(r.approx)

NaNRow(r) == IsNaN(r.approx)

sort_values_na_first(df) ==
    SelectRows(df, NaNRow) \o Let(SelectRows(df, NonNaNRow), LAMBDA rows : SortRows(rows, <<>>))

\* df.sort_values(by="Approx. Distance (km)", key=to_numeric coerce):
\* ascending, NaN last (na_position="last"); at most 10 rows, for which
\* the sort is an insertion sort
sort_values(df) ==
    Let(SelectRows(df, NonNaNRow), LAMBDA rows : SortRows(rows, <<>>)) \o SelectRows(df, NaNRow)

Min(a, b) == IF a < b THEN a ELSE b

\* df.head(n)
head(df, n) == SubSeq(df, 1, Min(n, Len(df)))

\* float(x): TypeError for None, ValueError for a non-numeric string
floatRaises(x) == ~IsNum(x)

\* round(d, 2) if d is not None else None
RoundedRoute(d) == IF IsNum(d) THEN Num(round2(d.v)) ELSE None

\* for _, row in subset.iterrows(): d = get_route_distance_km(...);
\* dists.append(round(d, 2) if d is not None else None)
RECURSIVE DrivingLoop(_, _, _, _, _)
DrivingLoop(subset, routes, i, dists, calls) ==
    IF i > Len(subset) THEN [exc |-> FALSE, dists |-> dists, calls |-> calls]
    ELSE IF floatRaises(subset[i].lat) \/ floatRaises(subset[i].lon)
         THEN [exc |-> TRUE, dists |-> dists, calls |-> calls]
         ELSE DrivingLoop(subset, routes, i + 1,
                          Append(dists, RoundedRoute(routes[subset[i].Name])),
                          Append(calls, "routing"))

\* the body of: if st.button("Calculate driving distances"): ...
CalculateBody(df, top_n, routes) ==
    Let(sort_values(df), LAMBDA df_sorted :
    Let(head(df_sorted, top_n), LAMBDA subset :
    Let(DrivingLoop(subset, routes, 1, <<>>, <<>>), LAMBDA loop :
        [exc |-> loop.exc, df_sorted |-> df_sorted, subset |-> subset,
         dists |-> loop.dists, calls |-> loop.calls, shown |-> ~loop.exc])))

NoCalc == [exc |-> FALSE, df_sorted |-> <<>>, subset |-> <<>>,
           dists |-> <<>>, calls |-> <<>>, shown |-> FALSE]

\* what the hospital section of one run leaves
Finder(ss, view, exc, df, calc, calls, buttons) ==
    [ss |-> ss, view |-> view, exc |-> exc, df |-> df, calc |-> calc,
     calls |-> calls, buttons |-> buttons]

\* places: [ok |-> the request returned JSON, features |-> its features]
\* geo: [lat, lon] as geocode_address returns them
HospitalFinderGeocodeTwice(ss, geoapify_key, btn, location_input, geo, places, top_n, routes) ==
    IF ~geoapify_key THEN Finder(ss, "disabled", FALSE, <<>>, NoCalc, <<>>, {})
    ELSE
    Let(IF Has(ss, "search_clicked") THEN ss ELSE Put(ss, "search_clicked", FALSE), LAMBDA ss1 :
        IF ~(btn["search"] /\ location_input # <<>>)
        THEN Finder(ss1, "none", FALSE, <<>>, NoCalc, <<>>, {"search"})
        ELSE
        Let(Put(ss1, "search_clicked", TRUE), LAMBDA ss2 :
            IF ~(Truthy(geo.lat) /\ Truthy(geo.lon))
            THEN Finder(ss2, "geocode_failed", FALSE, <<>>, NoCalc, <<"geocode", "geocode">>, {"search"})
            ELSE IF ~(places.ok /\ places.features # <<>>)
            THEN Finder(ss2, "no_hospitals", FALSE, <<>>, NoCalc, <<"geocode", "geocode", "places">>, {"search"})
            ELSE
            Let(BuildRows(geo.lat, geo.lon, places.features, 1, <<>>), LAMBDA b :
                IF b.exc
                THEN Finder(ss2, "none", TRUE, <<>>, NoCalc, <<"geocode", "geocode", "places">>, {"search"})
                ELSE
                Let(IF btn["calc"] THEN CalculateBody(b.rows, top_n, routes) ELSE NoCalc,
                    LAMBDA c :
                    Finder(ss2, "results", c.exc, b.rows, c, <<"geocode", "geocode", "places">> \o c.calls,
                           {"search", "calc"})))))

\* the section "Hospital Finder" of the script
HospitalFinder(ss, geoapify_key, btn, location_input, geo, places, top_n, routes) ==
    IF ~geoapify_key THEN Finder(ss, "disabled", FALSE, <<>>, NoCalc, <<>>, {})
    ELSE
    Let(IF Has(ss, "search_clicked") THEN ss ELSE Put(ss, "search_clicked", FALSE), LAMBDA ss1 :
        IF ~(btn["search"] /\ location_input # <<>>)
        THEN Finder(ss1, "none", FALSE, <<>>, NoCalc, <<>>, {"search"})
        ELSE
        Let(Put(ss1, "search_clicked", TRUE), LAMBDA ss2 :
            IF ~(Truthy(geo.lat) /\ Truthy(geo.lon))
            THEN Finder(ss2, "geocode_failed", FALSE, <<>>, NoCalc, <<"geocode">>, {"search"})
            ELSE IF ~(places.ok /\ places.features # <<>>)
            THEN Finder(ss2, "no_hospitals", FALSE, <<>>, NoCalc, <<"geocode", "places">>, {"search"})
            ELSE
            Let(BuildRows(geo.lat, geo.lon, places.features, 1, <<>>), LAMBDA b :
                IF b.exc
                THEN Finder(ss2, "none", TRUE, <<>>, NoCalc, <<"geocode", "places">>, {"search"})
                ELSE
                Let(IF btn["calc"] THEN CalculateBody(b.rows, top_n, routes) ELSE NoCalc,
                    LAMBDA c :
                    Finder(ss2, "results", c.exc, b.rows, c, <<"geocode", "places">> \o c.calls,
                           {"search", "calc"})))))

----------------------------------------------------------------------------
(* One execution of the script.                                            *)

Buttons == {"toggle", "analyze", "generate", "send", "search", "calc"}

NoButtons == [b \in Buttons |-> FALSE]

\* the button values of the run a click on button c triggers
Clicked(c) == [b \in Buttons |-> b = c]

\* slider value=5
SliderDefault == 5

\* slider max_value=min(10, len(df))
SliderMax == 10

NoGeo == [lat |-> None, lon |-> None]

NoPlaces == [ok |-> FALSE, features |-> <<>>]

\* the widget values and adapter responses of one run
DefaultInput ==
    [symptoms |-> <<>>, email |-> <<>>, location |-> <<>>,
     geo |-> NoGeo, places |-> NoPlaces, top_n |-> SliderDefault]

\* the script from "Main Card" to the end, with the given button values
\* out: the adapter outcomes [llm, pdf, mail, routes] of this run
Body(ss, file, cfg, btn, in, out) ==
    Let(AnalyzeHandler(ss, btn, in.symptoms, cfg.client, out.llm), LAMBDA a :
    Let(GenerateHandler(a.ss, file, btn, out.pdf), LAMBDA g :
    Let(SendHandler(g.ss, btn, in.email, cfg.can_send_email, out.mail), LAMBDA m :
    Let(HospitalFinder(g.ss, cfg.geoapify_key, btn, in.location, in.geo,
                       in.places, in.top_n, out.routes), LAMBDA h :
        [ss   |-> h.ss,
         file |-> g.file,
         run  |-> [calls    |-> a.calls \o m \o h.calls,
                   uncaught |-> h.exc,
                   ret      |-> a.ret,
                   view     |-> h.view,
                   df       |-> h.df,
                   calc     |-> h.calc,
                   buttons  |-> {"toggle", "analyze"}
                                \cup (IF Has(a.ss, "llm_response") THEN {"generate"} ELSE {})
                                \cup (IF Get(g.ss, "pdf_generated", FALSE) THEN {"send"} ELSE {})
                                \cup h.buttons]]))))

\* the whole script: theme state, the theme toggle (which sets the theme
\* and calls st.rerun(), a fresh run with no button true), then the body
Script(ss, file, cfg, btn, in, out) ==
    Let(IF Has(ss, "theme") THEN ss ELSE Put(ss, "theme", "dark"), LAMBDA ss0 :
        Body(IF ~btn["toggle"] THEN ss0
             ELSE Put(ss0, "theme", IF ss0["theme"] = "dark" THEN "light" ELSE "dark"),
             file, cfg, IF btn["toggle"] THEN NoButtons ELSE btn, in, out))

----------------------------------------------------------------------------
(* Bounds and input sets.                                                  *)

MaxText == 2

MaxFeatures == 2

MaxRows == 3

RECURSIVE SeqsUpTo(_, _)
SeqsUpTo(S, n) ==
    IF n = 0 THEN {<<>>}
    ELSE LET prev == SeqsUpTo(S, n - 1)
         IN  prev \cup {Append(q, x) : q \in {p \in prev : Len(p) = n - 1}, x \in S}

Symptoms == SeqsUpTo({"f", " "}, MaxText)

\* a single-line text input delivers no newline
Emails ==
    {l \o a \o d :
        l \in {<<>>, <<"u">>, <<"u", " ">>},
        a \in {<<>>, <<"@">>, <<"@", "@">>, <<"@", "u", "@">>},
        d \in {<<"u">>, <<"u", ".", "u">>, <<".", "u">>, <<"u", ".">>, <<"u", ".", "u", " ">>}}

Locations == {<<>>, <<"L">>}

LLMOutcomes == {Raised, Returned(NoContent), Returned(Content(<<" ", "r">>))}

PdfOutcomes == {"ok", "fail", "fail_output"}

MailOutcomes == {"file_missing", "sent", "smtp_error"}

Loc(a, b) == [lat |-> a, lon |-> b]

GeoResults == {NoGeo, Loc(Num(0), Num(30)), Loc(Num(30), Num(30))}

HospLocs == {Loc(None, None), Loc(Num(0), Num(30)), Loc(Num(60), Num(30)),
             Loc(Str, Num(30))}

PlacesResults ==
    {NoPlaces} \cup {[ok |-> TRUE, features |-> f] : f \in SeqsUpTo(HospLocs, MaxFeatures)}

\* get_route_distance_km: None, or a distance in km
RouteResults == {None, Num(1234567)}

Routes(n) == [1..n -> RouteResults]

DefaultOut == [llm |-> Raised, pdf |-> "fail", mail |-> "file_missing",
               routes |-> [i \in 1..MaxFeatures |-> None]]

Configs == [client : BOOLEAN, geoapify_key : BOOLEAN, can_send_email : BOOLEAN]

----------------------------------------------------------------------------
(* The session: every interaction is one run of the script.                *)

\* the interaction c, with widget values and responses in, runs the script
Interact(c, btn, in, out) ==
    \E r \in {Script(session_state, pdf_file, config, btn, in, out)} :
        /\ session_state' = r.ss
        /\ pdf_file' = r.file
        /\ input' = in
        /\ run' = [clicked |-> c] @@ r.run
        /\ UNCHANGED config

\* the first run of the script, on page load
Loaded(in) ==
    \E r \in {Script(<<>>, NoFile, config, NoButtons, DefaultInput, DefaultOut)} :
        /\ session_state = r.ss
        /\ pdf_file = r.file
        /\ input = in
        /\ run = [clicked |-> "load"] @@ r.run

Init ==
    /\ config \in Configs
    /\ Loaded(DefaultInput)

ClickToggle ==
    /\ "toggle" \in run.buttons
    /\ Interact("toggle", Clicked("toggle"), DefaultInput, DefaultOut)

ClickAnalyze ==
    /\ "analyze" \in run.buttons
    /\ \E s \in Symptoms, o \in LLMOutcomes :
        /\ (strip(s) = <<>> \/ ~config.client) => o = Raised
        /\ Interact("analyze", Clicked("analyze"), [DefaultInput EXCEPT !.symptoms = s],
                    [DefaultOut EXCEPT !.llm = o])

ClickGenerate ==
    /\ "generate" \in run.buttons
    /\ \E o \in PdfOutcomes :
        Interact("generate", Clicked("generate"), DefaultInput, [DefaultOut EXCEPT !.pdf = o])

ClickSend ==
    /\ "send" \in run.buttons
    /\ \E e \in Emails, o \in MailOutcomes :
        /\ (~EMAIL_RE_match(e) \/ ~config.can_send_email) => o = "file_missing"
        /\ Interact("send", Clicked("send"), [DefaultInput EXCEPT !.email = e],
                    [DefaultOut EXCEPT !.mail = o])

ClickSearch ==
    /\ "search" \in run.buttons
    /\ \E l \in Locations, g \in GeoResults, p \in PlacesResults :
        /\ l = <<>> => g = NoGeo
        /\ ~(Truthy(g.lat) /\ Truthy(g.lon)) => p = NoPlaces
        /\ Interact("search", Clicked("search"),
                    [DefaultInput EXCEPT !.location = l, !.geo = g, !.places = p],
                    DefaultOut)

\* the slider and the button exist only next to a displayed result table
ClickCalculate ==
    /\ "calc" \in run.buttons
    /\ \E n \in 1..Min(SliderMax, Len(run.df)), r \in Routes(MaxFeatures) :
        Interact("calc", Clicked("calc"),
                 [DefaultInput EXCEPT !.location = input.location, !.top_n = n],
                 [DefaultOut EXCEPT !.routes = r])

\* any interaction that is not one of the buttons above (editing a text
\* field, moving the slider, the download button): a run with no button true
OtherInteraction ==
    Interact("other", NoButtons, DefaultInput, DefaultOut)

Next ==
    \/ ClickToggle
    \/ ClickAnalyze
    \/ ClickGenerate
    \/ ClickSend
    \/ ClickSearch
    \/ ClickCalculate
    \/ OtherInteraction

Spec == Init /\ [][Next]_vars

----------------------------------------------------------------------------
(* The ranking of lines 389-422 as a function of its inputs: the places    *)
(* response, the geocoded origin and the slider value are drawn in the     *)
(* initial state and RankStep applies the search block with the            *)
(* "Calculate driving distances" branch taken.                             *)

RankOrigins == {Loc(Num(30), Num(30)), Loc(Num(60), Num(-90))}

RankLocs == {Loc(None, None), Loc(Num(30), None), Loc(Num(60), Num(30)),
             Loc(Num(30), Num(120)), Loc(Num(-60), Num(-90)), Loc(Num(30), Num(30))}

RankRoutes == {[i \in 1..MaxRows |-> x] : x \in RouteResults}

AllSet == [client |-> TRUE, geoapify_key |-> TRUE, can_send_email |-> TRUE]

InitRank ==
    /\ config = AllSet
    /\ \E g \in RankOrigins, f \in SeqsUpTo(RankLocs, MaxRows) \ {<<>>} :
           \E n \in 1..Min(SliderMax, Len(f)) :
               Loaded([DefaultInput EXCEPT !.location = <<"L">>, !.geo = g,
                                           !.places = [ok |-> TRUE, features |-> f],
                                           !.top_n = n])

RankStep ==
    /\ run.clicked = "load"
    /\ \E r \in RankRoutes :
        Interact("rank", [Clicked("search") EXCEPT !["calc"] = TRUE], input,
                 [DefaultOut EXCEPT !.routes = r])

NextRank == RankStep

SpecRank == InitRank /\ [][NextRank]_vars

----------------------------------------------------------------------------
(* haversine_km as a function of two points.                               *)

InitHaversine ==
    /\ config = AllSet
    /\ session_state = <<>>
    /\ pdf_file = NoFile
    /\ input \in [a : GridPoints, b : GridPoints]
    /\ run = [clicked |-> "load"]

HaversineStep ==
    /\ run.clicked = "load"
    /\ run' = [clicked |-> "haversine",
               ab |-> call_haversine_km(Num(input.a[1]), Num(input.a[2]),
                                        Num(input.b[1]), Num(input.b[2])),
               ba |-> call_haversine_km(Num(input.b[1]), Num(input.b[2]),
                                        Num(input.a[1]), Num(input.a[2]))]
    /\ UNCHANGED <<session_state, config, pdf_file, input>>

NextHaversine == HaversineStep

SpecHaversine == InitHaversine /\ [][NextHaversine]_vars

----------------------------------------------------------------------------
(* Properties.                                                             *)

\* text that is empty or whitespace only
Blank(s) == \A i \in 1..Len(s) : s[i] \in WS

Count(seq, x) == Cardinality({i \in 1..Len(seq) : seq[i] = x})

\* local@domain.tld: no whitespace, exactly one "@", a non-empty local
\* part, and a dot inside the part after the "@" with text on both sides
ValidRecipient(s) ==
    /\ \A i \in 1..Len(s) : s[i] \notin WS
    /\ Count(s, "@") = 1
    /\ LET at == CHOOSE i \in 1..Len(s) : s[i] = "@"
       IN  /\ at > 1
           /\ \E j \in (at + 2)..(Len(s) - 1) : s[j] = "."

\* a location with both coordinates present numbers in range
ValidPoint(p) ==
    /\ IsNum(p.lat) /\ p.lat.v \in -90..90
    /\ IsNum(p.lon) /\ p.lon.v \in -180..180

NumericCount(df) == Cardinality({i \in 1..Len(df) : df[i].approx # NA})

\* C1: the rows chosen for driving distances are at most min(N, number of
\* rows with a numeric approximate distance), none of them is "N/A", and
\* no routing call is made for such a row
C1_SubsetOnlyRanked ==
    (run.clicked = "rank" /\ run.view = "results") =>
        /\ Len(run.calc.subset) <= Min(input.top_n, NumericCount(run.df))
        /\ \A i \in 1..Len(run.calc.subset) : run.calc.subset[i].approx # NA
        /\ Count(run.calls, "routing") <= NumericCount(run.df)

\* C2: no Search Hospitals or Calculate run ends in an uncaught exception;
\* a hospital whose latitude or longitude is absent or not a number gets
\* "N/A" and all hospitals are displayed
C2_NoUncaughtException ==
    /\ run.clicked \in {"search", "calc"} => ~run.uncaught
    /\ (/\ run.clicked = "search"
        /\ input.location # <<>>
        /\ Truthy(input.geo.lat) /\ Truthy(input.geo.lon)
        /\ input.places.ok /\ input.places.features # <<>>) =>
           /\ run.view = "results"
           /\ Len(run.df) = Len(input.places.features)
           /\ \A i \in 1..Len(run.df) :
                  ~(IsNum(input.places.features[i].lat) /\ IsNum(input.places.features[i].lon))
                      => run.df[i].approx = NA

\* C3: a click on "Calculate driving distances" next to displayed results
\* makes one routing call per selected hospital and shows the table of
\* driving distances
C3_CalculateComputes ==
    run.clicked = "calc" =>
        /\ run.calc.shown
        /\ Len(run.calc.subset) >= 1
        /\ Count(run.calls, "routing") = Len(run.calc.subset)

\* C4: in df_sorted every "N/A" row comes after every row with a numeric
\* approximate distance, and the numeric rows are in ascending order
C4_SortedNaLast ==
    (run.clicked = "rank" /\ run.view = "results") =>
        \A i \in 1..Len(run.calc.df_sorted), j \in 1..Len(run.calc.df_sorted) :
            i < j =>
                LET x == run.calc.df_sorted[i].approx
                    y == run.calc.df_sorted[j].approx
                IN  /\ x = NA => y = NA
                    /\ (x # NA /\ y # NA) => x.v <= y.v

C4_Witness ==
    /\ run.clicked = "rank" /\ run.view = "results"
    /\ Len(run.df) = 3
    /\ run.df[1].approx = NA
    /\ run.df[2].approx # NA /\ run.df[3].approx # NA
    /\ run.df[2].approx.v > run.df[3].approx.v
    /\ Len(run.calc.df_sorted) = 3

\* C5: Analyze Symptoms with empty or whitespace-only text makes no call
\* and leaves the session state unchanged; Send PDF to Email with a
\* recipient that is not local@domain.tld opens no SMTP connection
C5_InvalidInputNoCall ==
    [][/\ (run'.clicked = "analyze" /\ Blank(input'.symptoms)) =>
              (run'.calls = <<>> /\ session_state' = session_state)
       /\ (run'.clicked = "send" /\ ~ValidRecipient(input'.email)) =>
              Count(run'.calls, "mail") = 0]_vars

C5_Witness ==
    /\ run.clicked = "analyze"
    /\ input.symptoms # <<>> /\ Blank(input.symptoms)
    /\ config.client
    /\ Has(session_state, "llm_response")
    /\ session_state["pdf_generated"]

\* C6: ask_groq raises nothing and never retries: without a client it
\* returns the fixed message and makes no request, otherwise it makes
\* exactly one request and returns the text or an error string; what it
\* returns is stored as llm_response
C6_AskGroqOnce ==
    (run.clicked = "analyze" /\ ~Blank(input.symptoms)) =>
        /\ ~run.uncaught
        /\ Has(session_state, "llm_response")
        /\ session_state["llm_response"] = run.ret
        /\ IF config.client
           THEN run.calls = <<"completion">> /\ run.ret.t \in {"text", "error"}
           ELSE run.calls = <<>> /\ run.ret = NotConfigured

C6_Witness ==
    /\ run.clicked = "analyze" /\ ~Blank(input.symptoms)
    /\ config.client
    /\ run.ret = LLMError

\* C7 as stated: every user action makes at most one adapter call
C7_AtMostOneCall == Len(run.calls) <= 1

\* C7 amended: every user action makes at most one call to each adapter it
\* uses: Analyze at most one completion call, Generate PDF none, Send at
\* most one mail connection, Search Hospitals at most one geocode call
\* followed by at most one places call, Calculate driving distances at
\* most one routing call per selected hospital
C7_BoundedCalls ==
    /\ run.clicked = "analyze" => run.calls \in {<<>>, <<"completion">>}
    /\ run.clicked = "send" => run.calls \in {<<>>, <<"mail">>}
    /\ run.clicked = "search" =>
           run.calls \in {<<>>, <<"geocode">>, <<"geocode", "places">>}
    /\ run.clicked = "calc" =>
           /\ Count(run.calls, "routing") = Len(run.calls)
           /\ Len(run.calls) <= Min(input.top_n, SliderMax)
    /\ run.clicked \in {"load", "toggle", "generate", "other"} => run.calls = <<>>

C7_Witness ==
    /\ run.clicked = "search"
    /\ run.calls = <<"geocode", "places">>
    /\ run.view = "results"

\* C8: haversine_km(a, b) and haversine_km(b, a) agree within one unit of
\* the last place
C8_Symmetric ==
    run.clicked = "haversine" =>
        /\ ~run.ab.exc /\ ~run.ba.exc
        /\ Abs(run.ab.km - run.ba.km) <= 1

C8_Witness ==
    /\ run.clicked = "haversine"
    /\ input.a[1] # input.b[1] /\ input.a[2] # input.b[2]
    /\ Abs(input.a[1]) # Abs(input.b[1])
    /\ run.ab.km > 0

\* C9: a location whose coordinates are numbers in range, 0 included, is
\* valid: such an origin is not reported as "geocoding failed" and such a
\* hospital gets a numeric approximate distance
C9_ZeroIsValid ==
    (run.clicked = "search" /\ input.location # <<>>) =>
        /\ ValidPoint(input.geo) => run.view # "geocode_failed"
        /\ run.view = "results" =>
               \A i \in 1..Len(run.df) :
                   ValidPoint(input.places.features[i]) => run.df[i].approx # NA

\* C10: whenever pdf_generated is true (the only state in which the e-mail
\* form is offered) llm_response exists and the PDF last written was
\* rendered from it; an Analyze that stores a response resets
\* pdf_generated, and only a successful Generate PDF sets it
C10_PdfIsCurrent ==
    /\ [](/\ "send" \in run.buttons => Get(session_state, "pdf_generated", FALSE)
          /\ Get(session_state, "pdf_generated", FALSE) =>
                /\ Has(session_state, "llm_response")
                /\ pdf_file.written
                /\ pdf_file.rendered_from = session_state["llm_response"])
    /\ [][/\ (run'.clicked = "analyze" /\ run'.ret # NoRet) =>
                 (Has(session_state', "pdf_generated") /\ ~session_state'["pdf_generated"])
          /\ (~Get(session_state, "pdf_generated", FALSE)
                 /\ Get(session_state', "pdf_generated", FALSE)) =>
                 (run'.clicked = "generate" /\ pdf_file'.written
                     /\ pdf_file'.rendered_from = session_state'["llm_response"])]_vars

C10_Witness ==
    /\ Get(session_state, "pdf_generated", FALSE)
    /\ run.clicked = "send"
    /\ session_state["llm_response"] = Text(<<"r">>)
    /\ "generate" \in run.buttons

====
